---- MODULE Spec2Model ----
(***************************************************************************)
(* Model of great_expectations/dataset/sqlalchemy_dataset.py: the          *)
(* expectations of SqlAlchemyDataSet evaluated against one backend table.  *)
(*                                                                         *)
(* A dataset handle is (engine, table_name) plus the column schema read    *)
(* once by __init__.  Every expectation call is one action: it runs the    *)
(* whole wrapper (argument resolution, the wrapped function, the backend   *)
(* queries, the success arithmetic and the output formatting) and leaves   *)
(* either an outcome (phase "returned") or an exception (phase "raised").  *)
(*                                                                         *)
(* Encoding.  Python None and SQL NULL are the integer NULL (-1); every    *)
(* genuine cell value, count and bound is >= 0.  A ratio n/d is the pair   *)
(* <<n, d>>, a missing ratio is <<>>.  mostly is given in hundredths       *)
(* (50 is 0.5).  A dictionary is a record; "key in d" is key \in DOMAIN d. *)
(* The table is projected onto its column "x"; column "s" exists with a    *)
(* non-numeric type and "nope" is a name the table does not have.          *)
(* The DataSet.expectation decorator (not part of these sources) is taken  *)
(* with include_config = False and catch_exceptions = None: the wrapped    *)
(* method's outcome or exception reaches the caller unchanged.             *)
(***************************************************************************)
EXTENDS Integers, Sequences, FiniteSets, TLC

VARIABLES
    batch_kwargs,             \* the dictionary the caller hands to _get_data_asset
    _data_asset_type,         \* PandasDatasource._data_asset_type
    table,                    \* backend: the cells of column "x", one per row
    columns,                  \* self.columns: schema cached by __init__
    default_expectation_args, \* self.default_expectation_args
    python,                   \* major version of the interpreter (2 or 3)
    phase,                    \* "idle", "returned" or "raised"
    call,                     \* the invocation being answered
    return_obj,               \* the outcome returned (NoReturn when none)
    raised,                   \* the exception that ended the call (NoException when none)
    queries,                  \* backend queries executed by the call, in order
    locals                    \* the map wrapper's local values at its end

vars == <<table, columns, default_expectation_args, python, phase, call,
          return_obj, raised, queries, locals, batch_kwargs, _data_asset_type>>

\* The state of a PandasDatasource and of its caller's dictionary; the
\* expectations of a SqlAlchemyDataSet have no access to it.
datasourceVars == <<batch_kwargs, _data_asset_type>>

\* {} and the default ClassConfig(class_name="PandasDataset")
EmptyDict == <<>>
DefaultDataAssetType == [type |-> "ClassConfig", class_name |-> "PandasDataset"]

----------------------------------------------------------------------------
(* Bounds of the model *)

MaxRows == 3        \* small tables: every table of at most MaxRows rows
MaxVal == 2         \* cell values are 1..MaxVal or NULL
LongRows == 22      \* a long table, with more non-null rows than the default sample limit
MaxPartial == 2     \* partial_unexpected_count ranges over 0..MaxPartial

NULL == -1

DefaultUnexpectedCountLimit == 20

----------------------------------------------------------------------------
(* Python values *)

NoException == [type |-> "None", msg |-> ""]
Exc(type, msg) == [type |-> type, msg |-> msg]

NoReturn == [none |-> TRUE]

NoRatio == <<>>
Ratio(n, d) == <<n, d>>

NoCondition == [op |-> "none"]

NoLocals ==
    [result_format |-> [result_obj_format |-> "None"],
     unexpected_count_limit |-> NULL, unexpected_condition |-> NoCondition,
     element_count |-> NULL, null_count |-> NULL, unexpected_count |-> NULL,
     nonnull_count |-> NULL, success_count |-> NULL,
     partial_unexpected_list |-> <<>>, unexpected_rows |-> <<>>,
     counted_rows |-> <<>>]

\* Result of running a wrapper: what the action stores.
Returned(obj, qs, ls) == [phase |-> "returned", return_obj |-> obj,
                          raised |-> NoException, queries |-> qs, locals |-> ls]
Raised(exc, qs, ls) == [phase |-> "raised", return_obj |-> NoReturn,
                        raised |-> exc, queries |-> qs, locals |-> ls]

\* Python 2 orders None below every number; Python 3 refuses the comparison.
\* PyLe(a, b) is a <= b as "T", "F" or "TypeError".
PyLe(py, a, b) ==
    IF a = NULL \/ b = NULL
    THEN IF py = 3 THEN "TypeError"
         ELSE IF a = NULL THEN "T" ELSE "F"
    ELSE IF a <= b THEN "T" ELSE "F"

PyGt(py, a, b) ==
    IF a = NULL \/ b = NULL
    THEN IF py = 3 THEN "TypeError"
         ELSE IF a # NULL /\ b = NULL THEN "T" ELSE "F"
    ELSE IF a > b THEN "T" ELSE "F"

----------------------------------------------------------------------------
(* The backend: one table, SQL three-valued logic *)

TableSchema == << [name |-> "x", type |-> "Integer"],
                  [name |-> "s", type |-> "String"] >>

TableColumnNames == {TableSchema[i].name : i \in 1..Len(TableSchema)}

Cells == {NULL} \cup (1..MaxVal)

RECURSIVE SeqsUpTo(_, _)
SeqsUpTo(S, n) ==
    IF n = 0 THEN {<<>>}
    ELSE LET shorter == SeqsUpTo(S, n - 1)
         IN shorter \cup {Append(q, c) : q \in {r \in shorter : Len(r) = n - 1}, c \in S}

\* A long table: mostly the value MaxVal, with a NULL and a 1 in it.
LongTable(n) == [i \in 1..n |-> IF i = 2 THEN NULL ELSE IF i = 3 THEN 1 ELSE MaxVal]

\* Rows carry no order of their own: a small table is listed in one order,
\* NULLs first and values ascending.
Sorted(q) == \A i \in 1..(Len(q) - 1) : q[i] <= q[i + 1]

Tables == {q \in SeqsUpTo(Cells, MaxRows) : Sorted(q)} \cup {LongTable(LongRows)}

Not3(v) == IF v = "T" THEN "F" ELSE IF v = "F" THEN "T" ELSE "U"
And3(a, b) == IF a = "F" \/ b = "F" THEN "F"
              ELSE IF a = "T" /\ b = "T" THEN "T" ELSE "U"
\* a <= b in SQL: unknown when either side is NULL
Le3(a, b) == IF a = NULL \/ b = NULL THEN "U" ELSE IF a <= b THEN "T" ELSE "F"

\* The unexpected conditions the map expectations build, evaluated on a cell.
EvalCondition(cond, cell) ==
    CASE cond.op = "is_not_null" -> IF cell # NULL THEN "T" ELSE "F"
      [] cond.op = "is_null" -> IF cell = NULL THEN "T" ELSE "F"
      [] cond.op = "not_in" ->
            Not3(IF cell = NULL THEN "U" ELSE IF cell \in cond.values_set THEN "T" ELSE "F")
      [] cond.op = "not_between" ->
            Not3(And3(Le3(cond.min_value, cell), Le3(cell, cond.max_value)))

Condition(op, values_set, min_value, max_value) ==
    [op |-> op, values_set |-> values_set, min_value |-> min_value, max_value |-> max_value]

RECURSIVE SeqSum(_)
SeqSum(s) == IF s = <<>> THEN 0 ELSE Head(s) + SeqSum(Tail(s))

RECURSIVE SeqMax(_)
SeqMax(s) == IF Len(s) = 1 THEN Head(s)
             ELSE LET m == SeqMax(Tail(s)) IN IF Head(s) > m THEN Head(s) ELSE m

RECURSIVE SeqMin(_)
SeqMin(s) == IF Len(s) = 1 THEN Head(s)
             ELSE LET m == SeqMin(Tail(s)) IN IF Head(s) < m THEN Head(s) ELSE m

IsNull(c) == c = NULL
NotNull(c) == c # NULL

\* SUM(CASE WHEN p THEN 1 ELSE 0 END): NULL over zero rows, else the number of
\* rows on which p is true (matching is the rows on which it is).
SumCase(rows, matching) ==
    IF rows = <<>> THEN NULL ELSE Len(matching)

\* The combined count query of the map wrapper.
CountQuery_unknownIsUnexpected(rows, cond) ==
    LET Unexpected(c) == EvalCondition(cond, c) # "F"
    IN [element_count |-> Len(rows),
        null_count |-> SumCase(rows, SelectSeq(rows, IsNull)),
        unexpected_count |-> SumCase(rows, SelectSeq(rows, Unexpected))]

CountQuery(rows, cond) ==
    LET Unexpected(c) == EvalCondition(cond, c) = "T"
    IN [element_count |-> Len(rows),
        null_count |-> SumCase(rows, SelectSeq(rows, IsNull)),
        unexpected_count |-> SumCase(rows, SelectSeq(rows, Unexpected))]

\* SELECT column FROM table WHERE cond LIMIT limit (no limit when NULL).
UnexpectedQuery(rows, cond, limit) ==
    LET Unexpected(c) == EvalCondition(cond, c) = "T"
        hits == SelectSeq(rows, Unexpected)
    IN IF limit = NULL \/ limit >= Len(hits) THEN hits ELSE SubSeq(hits, 1, limit)

\* The count query of the aggregate wrapper.
AggregateCountQuery(rows) ==
    [element_count |-> Len(rows), null_count |-> SumCase(rows, SelectSeq(rows, IsNull))]

\* SELECT max/min/sum/avg(column): NULL when no row has a non-null value.
\* avg is the exact ratio <<sum, count>>, and NoRatio when it is NULL.
AggregateQuery(fn, rows) ==
    LET vals == SelectSeq(rows, NotNull)
    IN IF vals = <<>> THEN (IF fn = "avg" THEN NoRatio ELSE NULL)
       ELSE CASE fn = "max" -> SeqMax(vals)
              [] fn = "min" -> SeqMin(vals)
              [] fn = "sum" -> SeqSum(vals)
              [] fn = "avg" -> Ratio(SeqSum(vals), Len(vals))

OperationalError == Exc("OperationalError", "no such column")

----------------------------------------------------------------------------
(* Argument resolution *)

Levels == {"BOOLEAN_ONLY", "BASIC", "SUMMARY", "COMPLETE"}

RfNone == [kind |-> "None"]
RfStr(s) == [kind |-> "str", value |-> s]
RfDict(d) == [kind |-> "dict", value |-> d]

\* dataset.util.parse_result_format: a level name becomes the structured
\* form; a structured form is kept.
parse_result_format(result_format) ==
    IF result_format.kind = "str"
    THEN [result_obj_format |-> result_format.value]
    ELSE result_format.value

\* if result_format is None: the dataset default, else parse_result_format
ResolveResultFormat(result_format, default_args) ==
    IF result_format.kind = "None"
    THEN default_args.result_format
    ELSE parse_result_format(result_format)

UnexpectedCountLimit_ignoresComplete(result_format) ==
    IF "partial_unexpected_count" \in DOMAIN result_format
    THEN result_format.partial_unexpected_count
    ELSE DefaultUnexpectedCountLimit

UnexpectedCountLimit(result_format) ==
    IF "partial_unexpected_count" \in DOMAIN result_format
    THEN result_format.partial_unexpected_count
    ELSE IF result_format.result_obj_format = "COMPLETE"
         THEN NULL
         ELSE DefaultUnexpectedCountLimit

----------------------------------------------------------------------------
(* DataSet helpers used by the map wrapper *)

\* DataSet._calc_map_expectation_success: (success, percent_success)
_calc_map_expectation_success(success_count, nonnull_count, mostly) ==
    IF nonnull_count > 0
    THEN [success |-> IF mostly # NULL
                      THEN success_count * 100 >= mostly * nonnull_count
                      ELSE nonnull_count - success_count = 0,
          percent_success |-> Ratio(success_count, nonnull_count)]
    ELSE [success |-> TRUE, percent_success |-> NoRatio]

\* DataSet._format_column_map_output(result_format, success, element_count,
\* nonnull_count, unexpected_list, unexpected_index_list).  It is handed the
\* sample list and no count: the count it reports is the length of the list.
_format_column_map_output(result_format, success, element_count, nonnull_count, unexpected_list) ==
    LET level == result_format.result_obj_format
        unexpected_count == Len(unexpected_list)
        missing_count == element_count - nonnull_count
    IN IF level = "BOOLEAN_ONLY"
       THEN [raised |-> NoException, value |-> [success |-> success]]
       ELSE IF level \in {"BASIC", "SUMMARY", "COMPLETE"}
       THEN [raised |-> NoException,
             value |->
               [success |-> success,
                result_obj |->
                  [element_count |-> element_count,
                   missing_count |-> missing_count,
                   missing_percent |-> IF element_count > 0
                                       THEN Ratio(missing_count, element_count)
                                       ELSE NoRatio,
                   unexpected_count |-> unexpected_count,
                   unexpected_percent |-> IF nonnull_count > 0
                                          THEN Ratio(unexpected_count, nonnull_count)
                                          ELSE NoRatio,
                   partial_unexpected_list |-> unexpected_list]]]
       ELSE [raised |-> Exc("ValueError", "Unknown result_format"), value |-> NoReturn]

----------------------------------------------------------------------------
(* Column map expectations: the wrapped functions *)

FuncValue(v) == [raised |-> NoException, queries |-> <<>>, value |-> v]
FuncRaise(e, qs) == [raised |-> e, queries |-> qs, value |-> NoReturn]

expect_column_values_to_be_null ==
    FuncValue(Condition("is_not_null", {}, NULL, NULL))

expect_column_values_to_not_be_null ==
    FuncValue(Condition("is_null", {}, NULL, NULL))

expect_column_values_to_be_in_set(values_set) ==
    FuncValue(Condition("not_in", values_set, NULL, NULL))

expect_column_values_to_be_between(py, min_value, max_value, parse_strings_as_datetimes) ==
    IF parse_strings_as_datetimes # "None"
    THEN FuncRaise(Exc("ValueError", "parse_strings_as_datetimes is not currently supported in SqlAlchemy."), <<>>)
    ELSE IF PyGt(py, min_value, max_value) = "TypeError"
    THEN FuncRaise(Exc("TypeError", "unorderable types"), <<>>)
    ELSE IF PyGt(py, min_value, max_value) = "T"
    THEN FuncRaise(Exc("ValueError", "min_value cannot be greater than max_value"), <<>>)
    ELSE IF min_value = NULL /\ max_value = NULL
    THEN FuncRaise(Exc("ValueError", "min_value and max_value cannot both be None"), <<>>)
    ELSE FuncValue(Condition("not_between", {}, min_value, max_value))

----------------------------------------------------------------------------
(* MetaSqlAlchemyDataSet.column_map_expectation.inner_wrapper *)

NonnullCount(count_results) ==
    count_results.element_count - count_results.null_count

SuccessCount_ofElements(nonnull_count, count_results) ==
    count_results.element_count - count_results.unexpected_count

SuccessCount(nonnull_count, count_results) ==
    nonnull_count - count_results.unexpected_count

\* Lines 33-58: from the call to the answer of the count query.  The result
\* is the exception raised on the way, or the position "counted" with the
\* locals the rest of the wrapper works on (counted_rows and unexpected_rows
\* record the rows the count query saw).
MapBegin(f, rows, table_columns, default_args, column, result_format_arg) ==
    LET result_format == ResolveResultFormat(result_format_arg, default_args)
        unexpected_count_limit == UnexpectedCountLimit(result_format)
        l0 == [NoLocals EXCEPT !.result_format = result_format,
                               !.unexpected_count_limit = unexpected_count_limit]
    IN IF f.raised # NoException
       THEN Raised(f.raised, f.queries, l0)
       ELSE IF column \notin table_columns
       THEN Raised(OperationalError, <<"count_query">>, l0)
       ELSE
       LET unexpected_condition == f.value
           count_results == CountQuery(rows, unexpected_condition)
           Hit(c) == EvalCondition(unexpected_condition, c) = "T"
           l1 == [l0 EXCEPT !.unexpected_condition = unexpected_condition,
                            !.element_count = count_results.element_count,
                            !.null_count = count_results.null_count,
                            !.unexpected_count = count_results.unexpected_count,
                            !.unexpected_rows = SelectSeq(rows, Hit),
                            !.counted_rows = rows]
       IN [phase |-> "counted", return_obj |-> NoReturn, raised |-> NoException,
           queries |-> <<"count_query">>, locals |-> l1]

\* Lines 60-75: the sample query, on the rows the table has by then, and the
\* outcome built from its list and the count results in the locals l1.
MapFinish(l1, rows, mostly) ==
    LET count_results == [element_count |-> l1.element_count,
                          null_count |-> l1.null_count,
                          unexpected_count |-> l1.unexpected_count]
        unexpected_query_results ==
            UnexpectedQuery(rows, l1.unexpected_condition, l1.unexpected_count_limit)
        qs == <<"count_query", "unexpected_query">>
    IN IF count_results.null_count = NULL
       THEN \* int - None
            Raised(Exc("TypeError", "unsupported operand type(s) for -"), qs, l1)
       ELSE
       LET nonnull_count == NonnullCount(count_results)
           partial_unexpected_list == unexpected_query_results
           success_count == SuccessCount(nonnull_count, count_results)
           calc == _calc_map_expectation_success(success_count, nonnull_count, mostly)
           out == _format_column_map_output(l1.result_format, calc.success,
                      count_results.element_count, nonnull_count,
                      partial_unexpected_list)
           l2 == [l1 EXCEPT !.nonnull_count = nonnull_count,
                            !.success_count = success_count,
                            !.partial_unexpected_list = partial_unexpected_list]
       IN IF out.raised # NoException
          THEN Raised(out.raised, qs, l2)
          ELSE Returned(out.value, qs, l2)

\* One call of the wrapper with nothing else touching the table in between.
column_map_expectation(f, rows, table_columns, default_args, column, mostly, result_format_arg) ==
    LET b == MapBegin(f, rows, table_columns, default_args, column, result_format_arg)
    IN IF b.phase = "counted" THEN MapFinish(b.locals, rows, mostly) ELSE b

----------------------------------------------------------------------------
(* Column aggregate expectations: the wrapped functions *)

NumericTypes == {"Integer", "BigInteger", "Float", "Numeric", "SmallInteger", "Boolean"}

_is_numeric_column_anyType(cols, column) ==
    \E i \in 1..Len(cols) : cols[i].name = column

_is_numeric_column(cols, column) ==
    \E i \in 1..Len(cols) : cols[i].name = column /\ cols[i].type \in NumericTypes

StatIsNone(fn, s) == IF fn = "avg" THEN s = NoRatio ELSE s = NULL

MinLeStat_strict(py, fn, m, s) ==
    IF StatIsNone(fn, s) THEN PyLe(py, m, NULL)
    ELSE IF fn = "avg" THEN (IF m * s[2] < s[1] THEN "T" ELSE "F")
    ELSE IF m < s THEN "T" ELSE "F"

\* min_value <= statistic, for a min_value that is not None
MinLeStat(py, fn, m, s) ==
    IF StatIsNone(fn, s) THEN PyLe(py, m, NULL)
    ELSE IF fn = "avg" THEN (IF m * s[2] <= s[1] THEN "T" ELSE "F")
    ELSE PyLe(py, m, s)

\* statistic <= max_value, for a max_value that is not None
StatLeMax(py, fn, s, m) ==
    IF StatIsNone(fn, s) THEN PyLe(py, NULL, m)
    ELSE IF fn = "avg" THEN (IF s[1] <= m * s[2] THEN "T" ELSE "F")
    ELSE PyLe(py, s, m)

\* The three branches that set success ("and" does not evaluate its second
\* operand when the first is false).
BetweenSuccess(py, fn, min_value, max_value, s) ==
    IF min_value # NULL /\ max_value # NULL
    THEN IF MinLeStat(py, fn, min_value, s) = "T"
         THEN StatLeMax(py, fn, s, max_value)
         ELSE MinLeStat(py, fn, min_value, s)
    ELSE IF min_value = NULL /\ max_value # NULL
    THEN StatLeMax(py, fn, s, max_value)
    ELSE MinLeStat(py, fn, min_value, s)

\* The common tail of the four functions: run the aggregate query, compare.
AggregateBetween(fn, py, rows, table_columns, column, min_value, max_value) ==
    LET qs == <<fn>>
    IN IF column \notin table_columns
       THEN FuncRaise(OperationalError, qs)
       ELSE LET s == AggregateQuery(fn, rows)
                success == BetweenSuccess(py, fn, min_value, max_value, s)
            IN IF success = "TypeError"
               THEN FuncRaise(Exc("TypeError", "unorderable types"), qs)
               ELSE [raised |-> NoException, queries |-> qs,
                     value |-> [success |-> success = "T",
                                result_obj |-> [observed_value |-> s]]]

BothNone == Exc("ValueError", "min_value and max_value cannot both be None")

expect_column_max_to_be_between(py, rows, table_columns, column, min_value, max_value, parse_strings_as_datetimes) ==
    IF min_value = NULL /\ max_value = NULL
    THEN FuncRaise(BothNone, <<>>)
    ELSE IF parse_strings_as_datetimes = "True"
    THEN FuncRaise(Exc("ValueError", "parse_strings_as_datetimes is not supported in SqlAlchemy"), <<>>)
    ELSE AggregateBetween("max", py, rows, table_columns, column, min_value, max_value)

expect_column_min_to_be_between(py, rows, table_columns, column, min_value, max_value, parse_strings_as_datetimes) ==
    IF min_value = NULL /\ max_value = NULL
    THEN FuncRaise(BothNone, <<>>)
    ELSE IF parse_strings_as_datetimes = "True"
    THEN FuncRaise(Exc("ValueError", "parse_strings_as_datetimes is not supported in SqlAlchemy"), <<>>)
    ELSE AggregateBetween("min", py, rows, table_columns, column, min_value, max_value)

expect_column_sum_to_be_between(py, rows, table_columns, column, min_value, max_value) ==
    IF min_value = NULL /\ max_value = NULL
    THEN FuncRaise(BothNone, <<>>)
    ELSE AggregateBetween("sum", py, rows, table_columns, column, min_value, max_value)

expect_column_mean_to_be_between(py, rows, table_columns, cols, column, min_value, max_value) ==
    IF min_value = NULL /\ max_value = NULL
    THEN FuncRaise(BothNone, <<>>)
    ELSE IF ~_is_numeric_column(cols, column)
    THEN FuncRaise(Exc("ValueError", "column is not numeric"), <<>>)
    ELSE AggregateBetween("avg", py, rows, table_columns, column, min_value, max_value)

----------------------------------------------------------------------------
(* MetaSqlAlchemyDataSet.column_aggregate_expectation.inner_wrapper *)

RequiredReturnInformation_noObservedValue(evaluation_result) ==
    /\ "success" \in DOMAIN evaluation_result
    /\ "result_obj" \in DOMAIN evaluation_result

\* the negation of the test that raises "failed to return required return
\* information"
RequiredReturnInformation(evaluation_result) ==
    /\ "success" \in DOMAIN evaluation_result
    /\ "result_obj" \in DOMAIN evaluation_result
    /\ "observed_value" \in DOMAIN evaluation_result.result_obj

AggregateResultObj(evaluation_result, count_results) ==
    [observed_value |-> evaluation_result.result_obj.observed_value,
     element_count |-> count_results.element_count,
     missing_count |-> count_results.null_count,
     missing_percent |-> IF count_results.element_count > 0
                         THEN Ratio(count_results.null_count, count_results.element_count)
                         ELSE NoRatio]

WithDetails_onlyDetails(result_obj, evaluation_result) ==
    IF "details" \in DOMAIN evaluation_result.result_obj
    THEN [details |-> evaluation_result.result_obj.details]
    ELSE result_obj

WithDetails(result_obj, evaluation_result) ==
    IF "details" \in DOMAIN evaluation_result.result_obj
    THEN [k \in DOMAIN result_obj \cup {"details"} |->
            IF k = "details" THEN evaluation_result.result_obj.details ELSE result_obj[k]]
    ELSE result_obj

KeyError(k) == Exc("KeyError", k)

\* The wrapper after the wrapped function returned evaluation_result, having
\* executed the queries qs0.
AggregateFormat_noBooleanOnly(result_format, evaluation_result, qs0, rows, table_columns, column) ==
    IF ~RequiredReturnInformation(evaluation_result)
    THEN Raised(Exc("ValueError", "Column aggregate expectation failed to return required return information."), qs0, NoLocals)
    ELSE
    LET qs == Append(qs0, "count_query")
        count_results == AggregateCountQuery(rows)
        basic == [success |-> evaluation_result.success,
                  result_obj |-> AggregateResultObj(evaluation_result, count_results)]
    IN IF column \notin table_columns
       THEN Raised(OperationalError, qs, NoLocals)
       ELSE IF result_format.result_obj_format \in {"BOOLEAN_ONLY", "BASIC"}
       THEN Returned(basic, qs, NoLocals)
       ELSE IF result_format.result_obj_format \in {"SUMMARY", "COMPLETE"}
       THEN Returned([basic EXCEPT !.result_obj = WithDetails(@, evaluation_result)], qs, NoLocals)
       ELSE Raised(Exc("ValueError", "Unknown result_format"), qs, NoLocals)

AggregateFormat(result_format, evaluation_result, qs0, rows, table_columns, column) ==
    IF ~RequiredReturnInformation(evaluation_result)
    THEN Raised(Exc("ValueError", "Column aggregate expectation failed to return required return information."), qs0, NoLocals)
    ELSE IF "success" \notin DOMAIN evaluation_result
    THEN Raised(KeyError("success"), qs0, NoLocals)
    ELSE IF result_format.result_obj_format = "BOOLEAN_ONLY"
    THEN Returned([success |-> evaluation_result.success], qs0, NoLocals)
    ELSE
    LET qs == Append(qs0, "count_query")
        count_results == AggregateCountQuery(rows)
    IN IF column \notin table_columns
       THEN Raised(OperationalError, qs, NoLocals)
       ELSE IF "result_obj" \notin DOMAIN evaluation_result
       THEN Raised(KeyError("result_obj"), qs, NoLocals)
       ELSE IF "observed_value" \notin DOMAIN evaluation_result.result_obj
       THEN Raised(KeyError("observed_value"), qs, NoLocals)
       ELSE
       LET basic == [success |-> evaluation_result.success,
                     result_obj |-> AggregateResultObj(evaluation_result, count_results)]
       IN IF result_format.result_obj_format = "BASIC"
          THEN Returned(basic, qs, NoLocals)
          ELSE IF result_format.result_obj_format \in {"SUMMARY", "COMPLETE"}
          THEN Returned([basic EXCEPT !.result_obj = WithDetails(@, evaluation_result)], qs, NoLocals)
          ELSE Raised(Exc("ValueError", "Unknown result_format"), qs, NoLocals)

column_aggregate_expectation(f, rows, table_columns, default_args, column, result_format_arg) ==
    LET result_format == ResolveResultFormat(result_format_arg, default_args)
        unexpected_count_limit == UnexpectedCountLimit(result_format)
        r == IF f.raised # NoException
             THEN Raised(f.raised, f.queries, NoLocals)
             ELSE AggregateFormat(result_format, f.value, f.queries, rows, table_columns, column)
    IN [r EXCEPT !.locals = [NoLocals EXCEPT !.result_format = result_format,
                                             !.unexpected_count_limit = unexpected_count_limit]]

----------------------------------------------------------------------------
(* Table level expectations *)

expect_table_row_count_to_equal(rows, value) ==
    IF value = NULL
    THEN Raised(Exc("ValueError", "value must be provided"), <<>>, NoLocals)
    ELSE LET row_count == Len(rows)
         IN Returned([success |-> row_count = value,
                      result_obj |-> [observed_value |-> row_count]],
                     <<"row_count">>, NoLocals)

expect_table_row_count_to_be_between(rows, min_value, max_value) ==
    LET row_count == Len(rows)
        qs == <<"row_count">>
        out(outcome) == Returned([success |-> outcome,
                                  result_obj |-> [observed_value |-> row_count]],
                                 qs, NoLocals)
    IN IF min_value # NULL /\ max_value # NULL
       THEN out(row_count >= min_value /\ row_count <= max_value)
       ELSE IF min_value = NULL /\ max_value # NULL
       THEN out(row_count <= max_value)
       ELSE IF min_value # NULL /\ max_value = NULL
       THEN out(row_count >= min_value)
       ELSE Raised(Exc("UnboundLocalError", "local variable 'outcome' referenced before assignment"),
                   qs, NoLocals)

\* col_names.index(column): position from 0, NULL when absent
ColumnIndex(cols, column) ==
    IF \E i \in 1..Len(cols) : cols[i].name = column
    THEN (CHOOSE i \in 1..Len(cols) :
            cols[i].name = column /\ \A j \in 1..(i - 1) : cols[j].name # column) - 1
    ELSE NULL

expect_column_to_exist_requeries(cols, column, column_index) ==
    Returned([success |-> ColumnIndex(cols, column) # NULL], <<"get_columns">>, NoLocals)

expect_column_to_exist(cols, column, column_index) ==
    LET col_index == ColumnIndex(cols, column)
    IN Returned([success |-> IF column_index = NULL
                             THEN col_index # NULL
                             ELSE col_index # NULL /\ column_index = col_index],
                <<>>, NoLocals)

----------------------------------------------------------------------------
(* Inputs *)

MostlyValues == {NULL, 50, 100}
BoundValues == {NULL} \cup (1..MaxVal)
ValueSets == {{1}, 1..MaxVal}
DatetimeFlags == {"None", "True"}
DataColumns == {"x", "nope"}
SchemaColumns == {"x", "s", "nope"}

ResultFormatArgs ==
    {RfNone}
      \cup {RfStr(l) : l \in Levels \cup {"BOGUS"}}
      \cup {RfDict([result_obj_format |-> "BASIC", partial_unexpected_count |-> k]) :
              k \in 0..MaxPartial}
      \cup {RfDict([result_obj_format |-> "COMPLETE", partial_unexpected_count |-> 1])}

\* What a wrapped statistic function may hand back to the aggregate wrapper.
EvaluationResults ==
    { [success |-> TRUE, result_obj |-> [observed_value |-> 1]],
      [success |-> FALSE, result_obj |-> [observed_value |-> 1, details |-> "d"]],
      [result_obj |-> [observed_value |-> 1]],
      [success |-> TRUE],
      [success |-> TRUE, result_obj |-> [details |-> "d"]] }

NoCall ==
    [func |-> "None", kind |-> "None", column |-> "", mostly |-> NULL,
     result_format |-> RfNone, min_value |-> NULL, max_value |-> NULL,
     values_set |-> {}, parse_strings_as_datetimes |-> "None",
     value |-> NULL, column_index |-> NULL, evaluation_result |-> <<>>]

----------------------------------------------------------------------------
(* State machine *)

\* SqlAlchemyDataSet.__init__: the schema is read from the table once.
Init ==
    /\ table \in Tables
    /\ columns = TableSchema
    /\ default_expectation_args = [result_format |-> [result_obj_format |-> "BASIC"]]
    /\ python \in {2, 3}
    /\ phase = "idle"
    /\ call = NoCall
    /\ return_obj = NoReturn
    /\ raised = NoException
    /\ queries = <<>>
    /\ locals = NoLocals
    /\ batch_kwargs = EmptyDict
    /\ _data_asset_type = DefaultDataAssetType

TableAfter_deletes(qs, rows) == IF qs = <<>> THEN rows ELSE <<>>

\* The rows of the table after the backend executed the queries qs of one
\* expectation call: each of them is a SELECT, which leaves the rows alone.
TableAfter(qs, rows) == rows

\* An expectation call c, issued when the caller is idle, ran to the result r.
Answer(c, r) ==
    /\ call' = c
    /\ phase' = r.phase
    /\ return_obj' = r.return_obj
    /\ raised' = r.raised
    /\ queries' = r.queries
    /\ locals' = r.locals
    /\ table' = TableAfter(r.queries, table)
    /\ UNCHANGED <<columns, default_expectation_args, python>>
    /\ UNCHANGED datasourceVars

MapCall(name, column, mostly, rf) ==
    [NoCall EXCEPT !.func = name, !.kind = "map", !.column = column,
                   !.mostly = mostly, !.result_format = rf]

AggregateCall(name, column, rf, min_value, max_value) ==
    [NoCall EXCEPT !.func = name, !.kind = "aggregate", !.column = column,
                   !.result_format = rf, !.min_value = min_value, !.max_value = max_value]

TableCall(name) == [NoCall EXCEPT !.func = name, !.kind = "table"]

ExpectColumnValuesToBeNull ==
    /\ phase = "idle"
    /\ \E column \in DataColumns, mostly \in MostlyValues, rf \in ResultFormatArgs :
        Answer(MapCall("expect_column_values_to_be_null", column, mostly, rf),
               column_map_expectation(expect_column_values_to_be_null, table,
                   TableColumnNames, default_expectation_args, column, mostly, rf))

ExpectColumnValuesToNotBeNull ==
    /\ phase = "idle"
    /\ \E column \in DataColumns, mostly \in MostlyValues, rf \in ResultFormatArgs :
        Answer(MapCall("expect_column_values_to_not_be_null", column, mostly, rf),
               column_map_expectation(expect_column_values_to_not_be_null, table,
                   TableColumnNames, default_expectation_args, column, mostly, rf))

ExpectColumnValuesToBeInSet ==
    /\ phase = "idle"
    /\ \E column \in DataColumns, mostly \in MostlyValues, rf \in ResultFormatArgs,
       values_set \in ValueSets :
        Answer([MapCall("expect_column_values_to_be_in_set", column, mostly, rf)
                   EXCEPT !.values_set = values_set],
               column_map_expectation(expect_column_values_to_be_in_set(values_set), table,
                   TableColumnNames, default_expectation_args, column, mostly, rf))

ExpectColumnValuesToBeBetween ==
    /\ phase = "idle"
    /\ \E column \in DataColumns, mostly \in MostlyValues, rf \in ResultFormatArgs,
       min_value \in BoundValues, max_value \in BoundValues, psd \in DatetimeFlags :
        Answer([MapCall("expect_column_values_to_be_between", column, mostly, rf)
                   EXCEPT !.min_value = min_value, !.max_value = max_value,
                          !.parse_strings_as_datetimes = psd],
               column_map_expectation(
                   expect_column_values_to_be_between(python, min_value, max_value, psd),
                   table, TableColumnNames, default_expectation_args, column, mostly, rf))

ExpectColumnMaxToBeBetween ==
    /\ phase = "idle"
    /\ \E column \in DataColumns, rf \in ResultFormatArgs,
       min_value \in BoundValues, max_value \in BoundValues, psd \in DatetimeFlags :
        Answer([AggregateCall("expect_column_max_to_be_between", column, rf, min_value, max_value)
                   EXCEPT !.parse_strings_as_datetimes = psd],
               column_aggregate_expectation(
                   expect_column_max_to_be_between(python, table, TableColumnNames, column,
                                                   min_value, max_value, psd),
                   table, TableColumnNames, default_expectation_args, column, rf))

ExpectColumnMinToBeBetween ==
    /\ phase = "idle"
    /\ \E column \in DataColumns, rf \in ResultFormatArgs,
       min_value \in BoundValues, max_value \in BoundValues, psd \in DatetimeFlags :
        Answer([AggregateCall("expect_column_min_to_be_between", column, rf, min_value, max_value)
                   EXCEPT !.parse_strings_as_datetimes = psd],
               column_aggregate_expectation(
                   expect_column_min_to_be_between(python, table, TableColumnNames, column,
                                                   min_value, max_value, psd),
                   table, TableColumnNames, default_expectation_args, column, rf))

ExpectColumnSumToBeBetween ==
    /\ phase = "idle"
    /\ \E column \in DataColumns, rf \in ResultFormatArgs,
       min_value \in BoundValues, max_value \in BoundValues :
        Answer(AggregateCall("expect_column_sum_to_be_between", column, rf, min_value, max_value),
               column_aggregate_expectation(
                   expect_column_sum_to_be_between(python, table, TableColumnNames, column,
                                                   min_value, max_value),
                   table, TableColumnNames, default_expectation_args, column, rf))

ExpectColumnMeanToBeBetween ==
    /\ phase = "idle"
    /\ \E column \in SchemaColumns, rf \in ResultFormatArgs,
       min_value \in BoundValues, max_value \in BoundValues :
        Answer(AggregateCall("expect_column_mean_to_be_between", column, rf, min_value, max_value),
               column_aggregate_expectation(
                   expect_column_mean_to_be_between(python, table, TableColumnNames, columns,
                                                    column, min_value, max_value),
                   table, TableColumnNames, default_expectation_args, column, rf))

\* The decorator applied to any other statistic function.
CustomColumnAggregateExpectation ==
    /\ phase = "idle"
    /\ \E column \in DataColumns, rf \in ResultFormatArgs,
       evaluation_result \in EvaluationResults :
        Answer([NoCall EXCEPT !.func = "custom", !.kind = "aggregate", !.column = column,
                              !.result_format = rf, !.evaluation_result = evaluation_result],
               column_aggregate_expectation(FuncValue(evaluation_result),
                   table, TableColumnNames, default_expectation_args, column, rf))

ExpectTableRowCountToEqual ==
    /\ phase = "idle"
    /\ \E value \in {NULL} \cup (0..MaxRows) :
        Answer([TableCall("expect_table_row_count_to_equal") EXCEPT !.value = value],
               expect_table_row_count_to_equal(table, value))

ExpectTableRowCountToBeBetween ==
    /\ phase = "idle"
    /\ \E min_value \in BoundValues, max_value \in BoundValues :
        Answer([TableCall("expect_table_row_count_to_be_between")
                   EXCEPT !.min_value = min_value, !.max_value = max_value],
               expect_table_row_count_to_be_between(table, min_value, max_value))

ExpectColumnToExist ==
    /\ phase = "idle"
    /\ \E column \in SchemaColumns, column_index \in {NULL, 0, 1} :
        Answer([TableCall("expect_column_to_exist")
                   EXCEPT !.column = column, !.column_index = column_index],
               expect_column_to_exist(columns, column, column_index))

\* The caller has the outcome (or the exception) and turns to its next
\* expectation: calls are synchronous, one at a time.
NextExpectation ==
    /\ phase \in {"returned", "raised"}
    /\ phase' = "idle"
    /\ call' = NoCall
    /\ return_obj' = NoReturn
    /\ raised' = NoException
    /\ queries' = <<>>
    /\ locals' = NoLocals
    /\ UNCHANGED <<table, columns, default_expectation_args, python>>
    /\ UNCHANGED datasourceVars

Next ==
    \/ ExpectColumnValuesToBeNull
    \/ ExpectColumnValuesToNotBeNull
    \/ ExpectColumnValuesToBeInSet
    \/ ExpectColumnValuesToBeBetween
    \/ ExpectColumnMaxToBeBetween
    \/ ExpectColumnMinToBeBetween
    \/ ExpectColumnSumToBeBetween
    \/ ExpectColumnMeanToBeBetween
    \/ CustomColumnAggregateExpectation
    \/ ExpectTableRowCountToEqual
    \/ ExpectTableRowCountToBeBetween
    \/ ExpectColumnToExist
    \/ NextExpectation

Spec == Init /\ [][Next]_vars

-----------------------------------------------------------------------------
(* A map expectation query by query, on a table that other clients of the
   database write to: a write can fall before the count query, between the
   count query and the sample query, or after them. *)

ConcMaxRows == 2

ConcTables == {q \in SeqsUpTo(Cells, ConcMaxRows) : Sorted(q)}

ConcResultFormatArgs ==
    {RfNone, RfStr("BOOLEAN_ONLY"),
     RfDict([result_obj_format |-> "BASIC", partial_unexpected_count |-> 1])}

ConcMostlyValues == {NULL, 50}

ConcCalls ==
    {MapCall(name, column, mostly, rf) :
        name \in {"expect_column_values_to_be_null", "expect_column_values_to_not_be_null"},
        column \in DataColumns, mostly \in ConcMostlyValues, rf \in ConcResultFormatArgs}
      \cup {[MapCall("expect_column_values_to_be_in_set", "x", mostly, rf)
                EXCEPT !.values_set = {1}] :
              mostly \in ConcMostlyValues, rf \in ConcResultFormatArgs}
      \cup {[MapCall("expect_column_values_to_be_between", "x", mostly, rf)
                EXCEPT !.min_value = 1, !.max_value = MaxVal] :
              mostly \in ConcMostlyValues, rf \in ConcResultFormatArgs}

\* The wrapped function of the map call c, applied to the arguments of c.
MapFunc(py, c) ==
    CASE c.func = "expect_column_values_to_be_null" -> expect_column_values_to_be_null
      [] c.func = "expect_column_values_to_not_be_null" -> expect_column_values_to_not_be_null
      [] c.func = "expect_column_values_to_be_in_set" ->
            expect_column_values_to_be_in_set(c.values_set)
      [] c.func = "expect_column_values_to_be_between" ->
            expect_column_values_to_be_between(py, c.min_value, c.max_value,
                                               c.parse_strings_as_datetimes)

\* rows with one more row v, listed in the order of Tables
Inserted(rows, v) ==
    LET k == Cardinality({i \in 1..Len(rows) : rows[i] <= v})
    IN SubSeq(rows, 1, k) \o <<v>> \o SubSeq(rows, k + 1, Len(rows))

\* rows without its i-th row
Removed(rows, i) == SubSeq(rows, 1, i - 1) \o SubSeq(rows, i + 1, Len(rows))

InitConc ==
    /\ table \in ConcTables
    /\ columns = TableSchema
    /\ default_expectation_args = [result_format |-> [result_obj_format |-> "BASIC"]]
    /\ python \in {2, 3}
    /\ phase = "idle"
    /\ call = NoCall
    /\ return_obj = NoReturn
    /\ raised = NoException
    /\ queries = <<>>
    /\ locals = NoLocals
    /\ batch_kwargs = EmptyDict
    /\ _data_asset_type = DefaultDataAssetType

\* The wrapper runs up to the answer of its count query (or to an exception).
CountStep ==
    /\ phase = "idle"
    /\ \E c \in ConcCalls :
        Answer(c, MapBegin(MapFunc(python, c), table, TableColumnNames,
                           default_expectation_args, c.column, c.result_format))

\* The wrapper runs its sample query and on to its return (or exception).
SampleStep ==
    /\ phase = "counted"
    /\ Answer(call, MapFinish(locals, table, call.mostly))

\* Another client writes to the table while no query of the wrapper runs.
Write(rows) ==
    /\ phase \in {"idle", "counted"}
    /\ table' = rows
    /\ UNCHANGED <<columns, default_expectation_args, python, phase, call,
                   return_obj, raised, queries, locals>>
    /\ UNCHANGED datasourceVars

InsertRow ==
    /\ Len(table) < ConcMaxRows
    /\ \E v \in Cells : Write(Inserted(table, v))

DeleteRow ==
    \E i \in 1..Len(table) : Write(Removed(table, i))

UpdateRow ==
    \E i \in 1..Len(table) :
        \E v \in Cells \ {table[i]} : Write(Inserted(Removed(table, i), v))

NextConc ==
    \/ CountStep
    \/ SampleStep
    \/ InsertRow
    \/ DeleteRow
    \/ UpdateRow
    \/ NextExpectation

SpecConc == InitConc /\ [][NextConc]_vars

-----------------------------------------------------------------------------
(* PandasDatasource: build_batch_kwargs and _get_data_asset.

   A Python value is a record with its type in the field type; a dictionary
   is a function from its keys, and the dictionary the caller passes as
   batch_kwargs is one object, which _get_data_asset changes in place.  The
   files named by Paths exist and can be read. *)

MaxTime == 2

Str(s) == [type |-> "str", value |-> s]
DataFrame == [type |-> "DataFrame"]
Series == [type |-> "Series"]
PyList == [type |-> "list"]
PyNone == [type |-> "NoneType"]

\* d.update(other), d.pop(key, default-or-absent), d[key] = v
Update(d, other) == other @@ d

Pop_keeps(d, key) == d

Pop(d, key) == [k \in DOMAIN d \ {key} |-> d[k]]

SetItem(d, key, v) == (key :> v) @@ d

\* isinstance(v, (pd.DataFrame, pd.Series))
IsFrame(v) == v.type \in {"DataFrame", "Series"}

\* ClassConfig(**config): a TypeError when config is not a mapping, and
\* then the caller goes on with config as it was.
ClassConfig(config) ==
    IF config.type = "dict"
    THEN [type |-> "ClassConfig", class_name |-> config.class_name]
    ELSE config

\* Datasource._get_data_asset_class: the class a configuration names.
_get_data_asset_class(config) ==
    IF config.type = "str" THEN config.value ELSE config.class_name

PandasDatasetSubclasses == {"PandasDataset", "CustomPandasDataset"}

\* issubclass(data_asset_type, PandasDataset)
IsPandasDataset(class) == class \in PandasDatasetSubclasses

\* ReaderMethods and Datasource._guess_reader_method_from_path
ReaderMethods == {"CSV", "parquet", "excel", "JSON"}

_guess_reader_method_from_path(path) ==
    CASE path.value = "data.csv" -> "CSV"
      [] path.value = "data.parquet" -> "parquet"
      [] path.value = "data.xlsx" -> "excel"
      [] path.value = "data.json" -> "JSON"
      [] OTHER -> "None"

\* The keyword arguments the pandas readers know, of those that occur here.
ReaderKeywords == {"sep"}

BatchKwargsError(msg, kwargs) ==
    [type |-> "BatchKwargsError", msg |-> msg, batch_kwargs |-> kwargs]

\* How a call of _get_data_asset ends: phase, outcome, and the caller's
\* dictionary as the call leaves it.
AssetReturned(asset, kwargs) ==
    [phase |-> "returned", return_obj |-> asset, raised |-> NoException,
     batch_kwargs |-> kwargs]

AssetRaised(exc, kwargs) ==
    [phase |-> "raised", return_obj |-> NoReturn, raised |-> exc, batch_kwargs |-> kwargs]

\* data_asset_type(df, expectation_suite=..., data_context=..., batch_kwargs=...)
DataAsset(class, df, expectation_suite, kwargs) ==
    [class |-> class, df |-> df, expectation_suite |-> expectation_suite,
     batch_kwargs |-> kwargs]

\* pd.read_csv / read_parquet / read_excel / read_json (path, **reader_options)
ReadFrame(reader_method, path, reader_options) ==
    IF DOMAIN reader_options \subseteq ReaderKeywords
    THEN [raised |-> NoException, value |-> DataFrame]
    ELSE [raised |-> Exc("TypeError", "got an unexpected keyword argument"),
          value |-> PyNone]

_get_data_asset(self_data_asset_type, batch_kwargs0, expectation_suite, kwargs) ==
    LET merged == Update(batch_kwargs0, kwargs)
        has_type == "data_asset_type" \in DOMAIN merged
        reader_options == IF has_type THEN Pop(merged, "data_asset_type") ELSE merged
        data_asset_type_config ==
            IF has_type THEN ClassConfig(merged["data_asset_type"])
            ELSE self_data_asset_type
        data_asset_type == _get_data_asset_class(data_asset_type_config)
    IN IF ~IsPandasDataset(data_asset_type)
       THEN AssetRaised(Exc("ValueError",
                            "PandasDatasource cannot instantiate batch with data_asset_type"),
                        merged)
       ELSE IF "path" \in DOMAIN merged
       THEN LET path == reader_options["path"]
                given == IF "reader_method" \in DOMAIN reader_options
                         THEN reader_options["reader_method"].value ELSE "None"
                options == Pop(Pop(Pop(Pop(reader_options, "path"), "timestamp"),
                                   "partition_id"), "reader_method")
                reader_method == IF given = "None"
                                 THEN _guess_reader_method_from_path(path) ELSE given
            IN IF given = "None" /\ reader_method = "None"
               THEN AssetRaised(BatchKwargsError("Unable to determine reader for path", merged),
                                merged)
               ELSE IF given # "None" /\ given \notin ReaderMethods
               THEN AssetRaised(BatchKwargsError("Unknown reader method", merged), merged)
               ELSE IF reader_method \in {"CSV", "parquet", "excel", "JSON"}
               THEN LET read == ReadFrame(reader_method, path, options)
                    IN IF read.raised # NoException
                       THEN AssetRaised(read.raised, merged)
                       ELSE AssetReturned(DataAsset(data_asset_type, read.value,
                                                    expectation_suite, merged), merged)
               ELSE AssetRaised(BatchKwargsError("Unsupported reader", merged), merged)
       ELSE IF "df" \in DOMAIN merged /\ IsFrame(merged["df"])
       THEN LET df == merged["df"]
                stored == SetItem(Pop(merged, "df"), "PandasInMemoryDF", TRUE)
            IN AssetReturned(DataAsset(data_asset_type, df, expectation_suite, stored), stored)
       ELSE AssetRaised(BatchKwargsError(
                "Invalid batch_kwargs: path or df is required for a PandasDatasource", merged),
                merged)

\* build_batch_kwargs(data_asset_name, *args, **kwargs) at the time now
build_batch_kwargs(args, kwargs, now) ==
    IF Len(args) > 0
    THEN IF IsFrame(args[1])
         THEN Update(kwargs, ("df" :> args[1]) @@ ("timestamp" :> now))
         ELSE IF args[1].type = "str"
         THEN Update(kwargs, ("path" :> args[1]) @@ ("timestamp" :> now))
         ELSE kwargs
    ELSE Update(kwargs, "timestamp" :> now)

\* PandasDatasource.__init__: the data_asset_type it keeps
DataAssetTypeOfInit(data_asset_type) ==
    IF data_asset_type = PyNone THEN DefaultDataAssetType ELSE ClassConfig(data_asset_type)

(* Inputs *)

ClassDict(name) == [type |-> "dict", class_name |-> name]

Optional(key, values) == {EmptyDict} \cup {key :> v : v \in values}

DataAssetTypeArgs == {PyNone, ClassDict("CustomPandasDataset"), Str("SqlAlchemyDataset")}

Paths == {Str("data.csv"), Str("data.txt")}

BuildArgs == {<<>>, <<DataFrame>>, <<Series>>, <<PyList>>} \cup {<<p>> : p \in Paths}

BuildKwargs ==
    {a @@ b @@ c :
        a \in Optional("data_asset_type", {ClassDict("PandasDataset"), Str("SqlAlchemyDataset")}),
        b \in Optional("reader_method", {Str("CSV"), Str("bogus")}),
        c \in Optional("df", {PyList})}

ExtraKwargs ==
    {EmptyDict, "path" :> Str("data.csv"), "df" :> DataFrame, "df" :> PyList,
     "sep" :> Str(","), "data_asset_type" :> Str("SqlAlchemyDataset")}

ExpectationSuites == {"None", "suite"}

DatasourceCall(kwargs0, expectation_suite, kwargs) ==
    [func |-> "_get_data_asset", kind |-> "datasource", batch_kwargs |-> kwargs0,
     expectation_suite |-> expectation_suite, kwargs |-> kwargs]

InitPandas ==
    /\ table = <<>>
    /\ columns = TableSchema
    /\ default_expectation_args = [result_format |-> [result_obj_format |-> "BASIC"]]
    /\ python \in {2, 3}
    /\ phase = "idle"
    /\ call = NoCall
    /\ return_obj = NoReturn
    /\ raised = NoException
    /\ queries = <<>>
    /\ locals = NoLocals
    /\ batch_kwargs = EmptyDict
    /\ _data_asset_type \in {DataAssetTypeOfInit(d) : d \in DataAssetTypeArgs}

\* The caller makes a new dictionary with build_batch_kwargs.
BuildBatchKwargs ==
    /\ phase = "idle"
    /\ \E args \in BuildArgs, kwargs \in BuildKwargs, now \in 1..MaxTime :
        batch_kwargs' = build_batch_kwargs(args, kwargs, now)
    /\ UNCHANGED <<table, columns, default_expectation_args, python, phase, call,
                   return_obj, raised, queries, locals, _data_asset_type>>

\* The caller hands its dictionary to _get_data_asset, which runs to its
\* return or raise.
GetDataAsset ==
    /\ phase = "idle"
    /\ \E kwargs \in ExtraKwargs, expectation_suite \in ExpectationSuites :
        LET r == _get_data_asset(_data_asset_type, batch_kwargs, expectation_suite, kwargs)
        IN /\ call' = DatasourceCall(batch_kwargs, expectation_suite, kwargs)
           /\ phase' = r.phase
           /\ return_obj' = r.return_obj
           /\ raised' = r.raised
           /\ batch_kwargs' = r.batch_kwargs
    /\ UNCHANGED <<table, columns, default_expectation_args, python, queries, locals,
                   _data_asset_type>>

NextPandas ==
    \/ BuildBatchKwargs
    \/ GetDataAsset
    \/ NextExpectation

SpecPandas == InitPandas /\ [][NextPandas]_vars

----------------------------------------------------------------------------
(* Properties *)

Min(a, b) == IF a <= b THEN a ELSE b

SchemaNames == {columns[i].name : i \in 1..Len(columns)}

Answered == phase # "idle"

\* The unexpected condition of the map call being answered, from its arguments.
CallCondition ==
    CASE call.func = "expect_column_values_to_be_null" ->
            Condition("is_not_null", {}, NULL, NULL)
      [] call.func = "expect_column_values_to_not_be_null" ->
            Condition("is_null", {}, NULL, NULL)
      [] call.func = "expect_column_values_to_be_in_set" ->
            Condition("not_in", call.values_set, NULL, NULL)
      [] call.func = "expect_column_values_to_be_between" ->
            Condition("not_between", {}, call.min_value, call.max_value)

BetweenFuncs ==
    {"expect_table_row_count_to_be_between", "expect_column_values_to_be_between",
     "expect_column_max_to_be_between", "expect_column_min_to_be_between",
     "expect_column_sum_to_be_between", "expect_column_mean_to_be_between"}

\* The exception type the code uses for invalid or contradictory parameters.
ConfigurationErrors == {"ValueError"}

\* C1: a map expectation that returns with nonnull_count > 0 succeeds, with
\* mostly None, exactly when unexpected_count is 0, and with mostly = m exactly
\* when (nonnull_count - unexpected_count) / nonnull_count >= m (equality
\* included); nothing else enters.
C1_MostlySuccess ==
    (phase = "returned" /\ call.kind = "map" /\ locals.nonnull_count > 0) =>
        /\ call.mostly = NULL =>
              (return_obj.success <=> locals.unexpected_count = 0)
        /\ call.mostly # NULL =>
              (return_obj.success <=>
                 (locals.nonnull_count - locals.unexpected_count) * 100
                     >= call.mostly * locals.nonnull_count)

\* C1 witness: success exactly at the boundary (one of two non-null rows
\* unexpected, mostly 0.5), next to null rows.
C1_Witness ==
    /\ phase = "returned" /\ call.kind = "map"
    /\ call.mostly = 50
    /\ locals.nonnull_count = 2 /\ locals.unexpected_count = 1
    /\ locals.null_count > 0
    /\ return_obj.success

\* C2: in every map expectation that returns, element_count = null_count +
\* nonnull_count and unexpected_count <= nonnull_count (no null row is counted
\* as unexpected).
C2_UnexpectedWithinNonnull ==
    (phase = "returned" /\ call.kind = "map") =>
        /\ locals.element_count = locals.null_count + locals.nonnull_count
        /\ locals.unexpected_count <= locals.nonnull_count
        /\ locals.success_count >= 0

\* C3: a map expectation with accepted arguments, on an existing column that
\* has no non-null row (all rows null, or no row), returns success = True
\* whatever mostly is.
C3_VacuousSuccess ==
    (/\ Answered /\ call.kind = "map"
     /\ locals.element_count # NULL
     /\ locals.result_format.result_obj_format \in Levels
     /\ SelectSeq(table, NotNull) = <<>>)
        => (phase = "returned" /\ return_obj.success = TRUE)

\* C4: in every map expectation that returns, the sample list has
\* min(unexpected_count, limit) values, limit being partial_unexpected_count
\* when the resolved result_format has that key, else none for COMPLETE and 20
\* for the other levels; each sampled value is the value of a row on which the
\* unexpected condition holds.
C4_SampleLength ==
    (phase = "returned" /\ call.kind = "map") =>
        LET rf == locals.result_format
            sample == locals.partial_unexpected_list
            expected ==
                IF "partial_unexpected_count" \in DOMAIN rf
                THEN Min(locals.unexpected_count, rf.partial_unexpected_count)
                ELSE IF rf.result_obj_format = "COMPLETE"
                THEN locals.unexpected_count
                ELSE Min(locals.unexpected_count, 20)
        IN /\ Len(sample) = expected
           /\ \A i \in 1..Len(sample) :
                 \E r \in 1..Len(table) :
                     /\ table[r] = sample[i]
                     /\ EvalCondition(CallCondition, table[r]) = "T"

\* C4 witness: more than 20 unexpected rows, no partial_unexpected_count, a
\* level other than COMPLETE: the sample is cut at 20.
C4_Witness ==
    /\ phase = "returned" /\ call.kind = "map"
    /\ "partial_unexpected_count" \notin DOMAIN locals.result_format
    /\ locals.result_format.result_obj_format = "SUMMARY"
    /\ locals.unexpected_count > 20
    /\ Len(locals.partial_unexpected_list) = 20

\* C5: a map or aggregate expectation that returns under the resolved level
\* BOOLEAN_ONLY returns exactly the key success.
C5_BooleanOnly ==
    (/\ phase = "returned" /\ call.kind \in {"map", "aggregate"}
     /\ locals.result_format.result_obj_format = "BOOLEAN_ONLY")
        => DOMAIN return_obj = {"success"}

\* C5 witness: an aggregate expectation returned under BOOLEAN_ONLY, having
\* run its statistic query.
C5_Witness ==
    /\ phase = "returned" /\ call.kind = "aggregate"
    /\ locals.result_format.result_obj_format = "BOOLEAN_ONLY"
    /\ queries # <<>>

\* C6: a map expectation on a column that is not in the cached schema ends in
\* a SchemaError, with no backend query executed.
C6_SchemaErrorBeforeQuery ==
    (Answered /\ call.kind = "map" /\ call.column \notin SchemaNames) =>
        (phase = "raised" /\ raised.type = "SchemaError" /\ queries = <<>>)

\* C7: a between-style expectation called with min_value and max_value both
\* None ends in a configuration error, raised before any backend query.  (The
\* TypeError that Python 3 raises when the min > max test compares None with
\* None is counted with the configuration errors.)
C7_BothNoneRejected ==
    (/\ Answered /\ call.func \in BetweenFuncs
     /\ call.min_value = NULL /\ call.max_value = NULL)
        => /\ phase = "raised"
           /\ raised.type \in ConfigurationErrors \cup {"TypeError"}
           /\ queries = <<>>

\* C8: a between-style expectation called with both bounds and min_value >
\* max_value (on the table, or on a column the table has, with a non-null
\* value in it) ends in a configuration error, not in an outcome.
C8_MinAboveMaxRejected ==
    (/\ Answered /\ call.func \in BetweenFuncs
     /\ call.kind = "table" \/ call.column \in TableColumnNames
     /\ SelectSeq(table, NotNull) # <<>>
     /\ call.min_value # NULL /\ call.max_value # NULL
     /\ call.min_value > call.max_value)
        => (phase = "raised" /\ raised.type \in ConfigurationErrors)

\* C9: an aggregate expectation (on an existing column with a non-null value
\* in it) whose resolved result_obj_format is none of the four levels ends in
\* a configuration error, raised before any backend query.
C9_UnknownFormatRejectedFirst ==
    (/\ Answered /\ call.kind = "aggregate"
     /\ call.column \in TableColumnNames
     /\ SelectSeq(table, NotNull) # <<>>
     /\ locals.result_format.result_obj_format \notin Levels)
        => (phase = "raised" /\ raised.type \in ConfigurationErrors /\ queries = <<>>)

\* C10: when the wrapped statistic function returns a value without success,
\* without result_obj, or with a result_obj without observed_value, the
\* aggregate wrapper raises its contract error at every level, returns no
\* outcome and runs no count query.
C10_MalformedStatisticRejected ==
    (/\ Answered /\ call.kind = "aggregate" /\ call.func = "custom"
     /\ \/ "success" \notin DOMAIN call.evaluation_result
        \/ "result_obj" \notin DOMAIN call.evaluation_result
        \/ "observed_value" \notin DOMAIN call.evaluation_result.result_obj)
        => /\ phase = "raised"
           /\ return_obj = NoReturn
           /\ raised = Exc("ValueError", "Column aggregate expectation failed to return required return information.")
           /\ \A i \in 1..Len(queries) : queries[i] # "count_query"

\* C10 witness: a result_obj without observed_value, rejected under
\* BOOLEAN_ONLY.
C10_Witness ==
    /\ phase = "raised" /\ call.func = "custom"
    /\ "result_obj" \in DOMAIN call.evaluation_result
    /\ "success" \in DOMAIN call.evaluation_result
    /\ "observed_value" \notin DOMAIN call.evaluation_result.result_obj
    /\ locals.result_format.result_obj_format = "BOOLEAN_ONLY"
    /\ raised.type = "ValueError"


\* The built-in aggregate expectations and the aggregate function of each.
StatisticFuncs ==
    {"expect_column_max_to_be_between", "expect_column_min_to_be_between",
     "expect_column_sum_to_be_between", "expect_column_mean_to_be_between"}

NonNullCells == SelectSeq(table, NotNull)

\* The statistic of column "x" as the ratio <<n, d>>, when it has a non-null cell.
ColumnStatistic(func) ==
    LET vals == {NonNullCells[i] : i \in 1..Len(NonNullCells)}
    IN CASE func = "expect_column_max_to_be_between" ->
                <<CHOOSE m \in vals : \A v \in vals : v <= m, 1>>
         [] func = "expect_column_min_to_be_between" ->
                <<CHOOSE m \in vals : \A v \in vals : m <= v, 1>>
         [] func = "expect_column_sum_to_be_between" -> <<SeqSum(NonNullCells), 1>>
         [] func = "expect_column_mean_to_be_between" ->
                <<SeqSum(NonNullCells), Len(NonNullCells)>>

\* C11: max/min/sum/mean_to_be_between that returns, on a column with a
\* non-null statistic s: success is true exactly when (min_value is None or
\* min_value <= s) and (max_value is None or s <= max_value), both inclusive,
\* and the observed_value reported (at BASIC and above) is s.
C11_BetweenInclusive ==
    (/\ phase = "returned" /\ call.func \in StatisticFuncs
     /\ NonNullCells # <<>>)
        => LET s == ColumnStatistic(call.func)
           IN /\ return_obj.success <=>
                    /\ call.min_value = NULL \/ call.min_value * s[2] <= s[1]
                    /\ call.max_value = NULL \/ s[1] <= call.max_value * s[2]
              /\ "result_obj" \in DOMAIN return_obj =>
                    IF call.func = "expect_column_mean_to_be_between"
                    THEN return_obj.result_obj.observed_value[1] * s[2]
                            = s[1] * return_obj.result_obj.observed_value[2]
                    ELSE return_obj.result_obj.observed_value = s[1]

\* C11 witness: only a lower bound, above the column's maximum: success is
\* false and the maximum is reported.
C11_Witness ==
    /\ phase = "returned" /\ call.func = "expect_column_max_to_be_between"
    /\ call.min_value = 2 /\ call.max_value = NULL
    /\ "result_obj" \in DOMAIN return_obj
    /\ return_obj.result_obj.observed_value = 1
    /\ return_obj.success = FALSE


\* The fields of an outcome: its keys and, under result_obj, the keys of that.
FieldsOf(obj) ==
    {<<k>> : k \in DOMAIN obj}
      \cup (IF "result_obj" \in DOMAIN obj
            THEN {<<"result_obj", k>> : k \in DOMAIN obj.result_obj}
            ELSE {})

\* What the wrapped statistic function returned to the aggregate call that
\* was answered with an outcome.
CallEvaluationResult ==
    CASE call.func = "custom" -> call.evaluation_result
      [] call.func = "expect_column_max_to_be_between" ->
            expect_column_max_to_be_between(python, table, TableColumnNames, call.column,
                call.min_value, call.max_value, call.parse_strings_as_datetimes).value
      [] call.func = "expect_column_min_to_be_between" ->
            expect_column_min_to_be_between(python, table, TableColumnNames, call.column,
                call.min_value, call.max_value, call.parse_strings_as_datetimes).value
      [] call.func = "expect_column_sum_to_be_between" ->
            expect_column_sum_to_be_between(python, table, TableColumnNames, call.column,
                call.min_value, call.max_value).value
      [] call.func = "expect_column_mean_to_be_between" ->
            expect_column_mean_to_be_between(python, table, TableColumnNames, columns,
                call.column, call.min_value, call.max_value).value

\* The fields of the outcome the aggregate wrapper builds at a level, for the
\* table and the statistic result of the call that was answered.
AggregateFields(level) ==
    FieldsOf(AggregateFormat([result_obj_format |-> level], CallEvaluationResult, <<>>,
                             table, TableColumnNames, call.column).return_obj)

AggregateOutcomeAtEveryLevel ==
    /\ phase = "returned" /\ call.kind = "aggregate"
    /\ call.column \in TableColumnNames

\* C12 (as claimed): for a fixed table and statistic result the fields at
\* BOOLEAN_ONLY are exactly {success}, fields(BASIC) is a subset of
\* fields(SUMMARY), that a subset of fields(COMPLETE), and both the step to
\* BASIC and the step to SUMMARY add fields.
C12_EachLevelAddsFields ==
    AggregateOutcomeAtEveryLevel =>
        /\ FieldsOf(return_obj) = AggregateFields(locals.result_format.result_obj_format)
        /\ AggregateFields("BOOLEAN_ONLY") = {<<"success">>}
        /\ AggregateFields("BASIC") \subseteq AggregateFields("SUMMARY")
        /\ AggregateFields("SUMMARY") \subseteq AggregateFields("COMPLETE")
        /\ AggregateFields("BOOLEAN_ONLY") # AggregateFields("BASIC")
        /\ AggregateFields("BOOLEAN_ONLY") \subseteq AggregateFields("BASIC")
        /\ AggregateFields("BASIC") # AggregateFields("SUMMARY")

\* C12 (amended): the fields never shrink, BOOLEAN_ONLY has exactly {success},
\* BASIC adds fields, and SUMMARY adds to BASIC the one field details exactly
\* when the statistic function supplied details (else the same fields);
\* COMPLETE has the fields of SUMMARY.
C12_FieldsNeverShrink ==
    AggregateOutcomeAtEveryLevel =>
        /\ FieldsOf(return_obj) = AggregateFields(locals.result_format.result_obj_format)
        /\ AggregateFields("BOOLEAN_ONLY") = {<<"success">>}
        /\ AggregateFields("BASIC") \subseteq AggregateFields("SUMMARY")
        /\ AggregateFields("SUMMARY") \subseteq AggregateFields("COMPLETE")
        /\ AggregateFields("BOOLEAN_ONLY") # AggregateFields("BASIC")
        /\ AggregateFields("BOOLEAN_ONLY") \subseteq AggregateFields("BASIC")
        /\ AggregateFields("SUMMARY") \ AggregateFields("BASIC") =
              (IF "details" \in DOMAIN CallEvaluationResult.result_obj
               THEN {<<"result_obj", "details">>} ELSE {})
        /\ AggregateFields("COMPLETE") = AggregateFields("SUMMARY")

\* C12 witness: an outcome at SUMMARY that carries the statistic function's
\* details next to the BASIC fields.
C12_Witness ==
    /\ phase = "returned" /\ call.kind = "aggregate"
    /\ locals.result_format.result_obj_format = "SUMMARY"
    /\ <<"result_obj", "details">> \in FieldsOf(return_obj)
    /\ <<"result_obj", "observed_value">> \in FieldsOf(return_obj)


\* C13: no step of an expectation call, returning or raising, changes the
\* rows of the table or the cached column schema of the dataset, so a later
\* expectation sees the data an earlier one saw.
C13_ExpectationsOnlyRead ==
    [][table' = table /\ columns' = columns]_vars

\* C13 witness: an expectation has sent both of its queries to a table that
\* has rows.
C13_Witness ==
    /\ Answered /\ Len(queries) = 2
    /\ table # <<>>


\* The expectations the dataset defines (a custom statistic function sends
\* queries of its own, which are not counted here).
BuiltIn == call.func # "custom"

\* C14 (as claimed): every built-in expectation call that returns an outcome
\* has sent exactly one or exactly two queries.
C14_OneOrTwoQueries ==
    (phase = "returned" /\ BuiltIn) => Len(queries) \in {1, 2}

\* C14 (amended): a call that returns an outcome has sent at most two
\* queries: none for expect_column_to_exist, which reads the cached schema,
\* one for a row-count expectation, two for a map expectation, and for an
\* aggregate expectation one at BOOLEAN_ONLY and two at the other levels.
C14_QueriesPerExpectation ==
    (phase = "returned" /\ BuiltIn) =>
        Len(queries) =
            CASE call.func = "expect_column_to_exist" -> 0
              [] call.kind = "table" /\ call.func # "expect_column_to_exist" -> 1
              [] call.kind = "map" -> 2
              [] call.kind = "aggregate" ->
                    IF locals.result_format.result_obj_format = "BOOLEAN_ONLY"
                    THEN 1 ELSE 2

\* C14 witness: expect_column_to_exist returned an outcome for a column of
\* the schema without a query.
C14_Witness ==
    /\ phase = "returned" /\ call.func = "expect_column_to_exist"
    /\ call.column = "s" /\ return_obj.success
    /\ queries = <<>>


\* C15: expect_column_mean_to_be_between with at least one bound, on a column
\* that the cached schema does not list with a numeric type, raises a
\* configuration error and has sent no query, the average query included.
C15_MeanOfNonNumericRejected ==
    (/\ Answered /\ call.func = "expect_column_mean_to_be_between"
     /\ call.min_value # NULL \/ call.max_value # NULL
     /\ ~\E i \in 1..Len(columns) :
            columns[i].name = call.column /\ columns[i].type \in NumericTypes)
        => /\ phase = "raised"
           /\ raised.type \in ConfigurationErrors
           /\ raised.msg = "column is not numeric"
           /\ queries = <<>>

\* C15 witness: the mean of the String column s was asked for with a bound
\* and refused.
C15_Witness ==
    /\ phase = "raised" /\ call.func = "expect_column_mean_to_be_between"
    /\ call.column = "s" /\ call.min_value = 1
    /\ raised.msg = "column is not numeric"


\* The rows of the table on which the unexpected condition of the map call
\* being answered holds.
UnexpectedRows == SelectSeq(table, LAMBDA cell : EvalCondition(CallCondition, cell) = "T")

\* C16: at BASIC and above a map outcome reports as unexpected_count the
\* number of rows on which the unexpected condition holds, and as
\* unexpected_percent that number over nonnull_count, whatever the length of
\* the sample list.  (Stated for the expectations whose condition holds on no
\* null row, on a column with a non-null row.)
C16_UnexpectedCountOfTable ==
    (/\ phase = "returned" /\ call.kind = "map"
     /\ call.func # "expect_column_values_to_not_be_null"
     /\ NonNullCells # <<>>
     /\ "result_obj" \in DOMAIN return_obj)
        => /\ return_obj.result_obj.unexpected_count = Len(UnexpectedRows)
           /\ return_obj.result_obj.unexpected_count = locals.unexpected_count
           /\ return_obj.result_obj.unexpected_percent =
                 Ratio(Len(UnexpectedRows), Len(NonNullCells))


NullCells == SelectSeq(table, IsNull)

\* C17: with mostly = None, an outcome of expect_column_values_to_not_be_null
\* has success = TRUE exactly when the column has no null row, and an
\* outcome of expect_column_values_to_be_null has success = TRUE exactly
\* when every row of the column is null.
C17_NullExpectationsExact ==
    (/\ phase = "returned" /\ call.column = "x" /\ call.mostly = NULL
     /\ call.func \in {"expect_column_values_to_not_be_null",
                       "expect_column_values_to_be_null"})
        => IF call.func = "expect_column_values_to_not_be_null"
           THEN return_obj.success <=> (NullCells = <<>>)
           ELSE return_obj.success <=> (NonNullCells = <<>>)


\* C18: at BASIC and above an aggregate outcome has element_count = number
\* of rows, missing_count = number of rows where the column is null (0 for a
\* table without rows), and missing_percent = missing_count / element_count,
\* or None when there is no row.
C18_AggregateMissingCounts ==
    (/\ phase = "returned" /\ call.kind = "aggregate" /\ call.column = "x"
     /\ "result_obj" \in DOMAIN return_obj)
        => /\ return_obj.result_obj.element_count = Len(table)
           /\ return_obj.result_obj.missing_count = Len(NullCells)
           /\ return_obj.result_obj.missing_percent =
                 (IF Len(table) = 0 THEN NoRatio
                  ELSE Ratio(Len(NullCells), Len(table)))


\* C19: when the column has no non-null value, a statistic expectation with
\* at least one bound returns an outcome with a boolean success, and at
\* BASIC and above its observed_value is the None the aggregate query gave.
C19_NoneStatisticPassedThrough ==
    (/\ Answered /\ call.func \in StatisticFuncs /\ call.column = "x"
     /\ NonNullCells = <<>>
     /\ call.min_value # NULL \/ call.max_value # NULL
     /\ call.parse_strings_as_datetimes = "None"
     /\ call.result_format # RfStr("BOGUS"))
        => /\ phase = "returned"
           /\ return_obj.success \in BOOLEAN
           /\ "result_obj" \in DOMAIN return_obj =>
                 return_obj.result_obj.observed_value =
                    (IF call.func = "expect_column_mean_to_be_between"
                     THEN NoRatio ELSE NULL)


Merged == Update(call.batch_kwargs, call.kwargs)

NoPath == "path" \notin DOMAIN Merged

FrameGiven == "df" \in DOMAIN Merged /\ Merged["df"].type \in {"DataFrame", "Series"}

\* The class the data asset type configuration of the call names.
CallAssetClass ==
    LET config == IF "data_asset_type" \in DOMAIN Merged
                  THEN Merged["data_asset_type"] ELSE _data_asset_type
    IN IF config.type = "str" THEN config.value ELSE config.class_name

GetDataAssetAnswered == Answered /\ call.func = "_get_data_asset"

\* C21 (as claimed): a call without path and with a DataFrame or Series as
\* df returns an asset whose batch_kwargs is the caller's dictionary with df
\* removed and PandasInMemoryDF = TRUE; a call with neither path nor such a
\* df raises BatchKwargsError and constructs no asset.
C21_FrameLeavesBatchKwargs ==
    (GetDataAssetAnswered /\ NoPath)
        => IF FrameGiven
           THEN /\ phase = "returned"
                /\ "df" \notin DOMAIN batch_kwargs
                /\ batch_kwargs["PandasInMemoryDF"] = TRUE
                /\ return_obj.batch_kwargs = batch_kwargs
                /\ return_obj.df = Merged["df"]
           ELSE /\ phase = "raised"
                /\ raised.type = "BatchKwargsError"
                /\ return_obj = NoReturn

\* C21 (amended): the same, for a call whose data asset type is a subclass
\* of PandasDataset; for any other data asset type the call raises
\* ValueError first, constructs no asset and leaves df in the dictionary.
C21_FrameLeavesBatchKwargsOfPandasAsset ==
    (GetDataAssetAnswered /\ NoPath)
        => IF CallAssetClass \notin PandasDatasetSubclasses
           THEN /\ phase = "raised"
                /\ raised.type = "ValueError"
                /\ return_obj = NoReturn
                /\ batch_kwargs = Merged
           ELSE IF FrameGiven
           THEN /\ phase = "returned"
                /\ "df" \notin DOMAIN batch_kwargs
                /\ batch_kwargs["PandasInMemoryDF"] = TRUE
                /\ DOMAIN batch_kwargs = (DOMAIN Merged \ {"df"}) \cup {"PandasInMemoryDF"}
                /\ \A k \in DOMAIN Merged \ {"df", "PandasInMemoryDF"} :
                      batch_kwargs[k] = Merged[k]
                /\ return_obj.batch_kwargs = batch_kwargs
                /\ return_obj.df = Merged["df"]
           ELSE /\ phase = "raised"
                /\ raised.type = "BatchKwargsError"
                /\ return_obj = NoReturn
                /\ batch_kwargs = Merged

\* C21 witness: an asset was returned for a dictionary that held a
\* DataFrame under df and other keys next to it.
C21_Witness ==
    /\ phase = "returned" /\ call.func = "_get_data_asset"
    /\ "df" \in DOMAIN call.batch_kwargs /\ call.batch_kwargs["df"] = DataFrame
    /\ "timestamp" \in DOMAIN call.batch_kwargs
    /\ call.kwargs = EmptyDict
    /\ "df" \notin DOMAIN return_obj.batch_kwargs

====
